---------------------------- MODULE Spec2Model ----------------------------
(***************************************************************************)
(* Videoarr backend (backend/server.py): the settings advisor              *)
(* generate_handbrake_settings and the upload -> queue -> worker pipeline  *)
(* (analyze_video_file, queue_handbrake_job, run_handbrake_job) over the   *)
(* three MongoDB collections and the local file system.                    *)
(*                                                                         *)
(* Conventions.                                                            *)
(*  - A string that ends up on a command line is a sequence of "words"     *)
(*    (maximal whitespace-free chunks); " ".join concatenates the word     *)
(*    lists of its arguments and str.split() returns the flat word list.   *)
(*  - A word is a record [dir, base]: dir is the directory prefix of the   *)
(*    chunk ("" when it holds no "/"), base the text after the last "/".   *)
(*  - Floats with one decimal are kept in tenths (0.4 is 4).               *)
(*  - An Optional field is <<>> (None) or <<v>>.                           *)
(***************************************************************************)
EXTENDS Integers, Sequences, FiniteSets, TLC

(***************************************************************************)
(* Bounds of the model.                                                    *)
(***************************************************************************)
MaxRequests == 4     \* requests served: uploads saved and jobs queued, together
MaxCalls == 2        \* calls of generate_handbrake_settings on one analysis
MaxClock == 1        \* ticks of datetime.utcnow() between those calls

(***************************************************************************)
(* Program constants.                                                      *)
(***************************************************************************)
Height4K == 2160
Height1080p == 1080
Height720p == 720
BppNum == 15         \* 0.15 = BppNum / BppDen
BppDen == 100

UPLOAD_DIR == "/tmp/video_uploads"
OUTPUT_DIR == "/tmp/handbrake_output"

None == <<>>
Some(x) == <<x>>

\* str(uuid.uuid4()): a fresh value for every model object constructed; the
\* model names it by the object's kind and its serial number in that kind.
Uuid4(kind, serial) == <<kind, serial>>

(***************************************************************************)
(* Words, paths and file names.                                            *)
(***************************************************************************)
Word(s) == [dir |-> "", base |-> s]

\* A file name is its stem (one word or more) and its extension.
NameWords(name) ==
  LET n == Len(name.stem)
  IN  [i \in 1..n |->
         IF i = n THEN Word(name.stem[i] \o "." \o name.ext) ELSE Word(name.stem[i])]

\* temp_dir / file.filename
JoinPath(dir, words) ==
  [i \in 1..Len(words) |-> IF i = 1 THEN [dir |-> dir, base |-> words[1].base] ELSE words[i]]

\* Path(p).name of a single word
PathName(w) == Word(w.base)

\* f"{Path(input_file).stem}_optimized.{container}"
OptimizedName(name, container) ==
  LET n == Len(name.stem)
  IN  [i \in 1..n |->
         IF i = n THEN Word(name.stem[i] \o "_optimized." \o container)
                  ELSE Word(name.stem[i])]

RECURSIVE Join(_)
\* " ".join(args): every argument is a word list
Join(args) == IF args = <<>> THEN <<>> ELSE Head(args) \o Join(Tail(args))

\* str.split(): the flat word list is what the model keeps
Split(words) == words

(***************************************************************************)
(* generate_handbrake_settings                                             *)
(***************************************************************************)
\* current_bitrate_per_pixel > 0.15, in exact arithmetic.  The float
\* quotient of two integers below 2^53 is the correctly rounded quotient,
\* and 0.15 is the double nearest 3/20, so the comparison agrees with the
\* exact one for every frame of fewer than 10^15 pixels.
\* Mutant of BitsPerPixelAbove: the comparison with 0.15 is not strict.
BitsPerPixelAtLeast(analysis) ==
  LET pixels == analysis.width * analysis.height
      bitrate == IF analysis.video_bitrate = None THEN 0 ELSE analysis.video_bitrate[1]
  IN  IF pixels > 0 THEN bitrate * BppDen >= BppNum * pixels ELSE FALSE

BitsPerPixelAbove(analysis) ==
  LET pixels == analysis.width * analysis.height
      \* (analysis.video_bitrate or 0)
      bitrate == IF analysis.video_bitrate = None THEN 0 ELSE analysis.video_bitrate[1]
  IN  IF pixels > 0 THEN bitrate * BppDen > BppNum * pixels ELSE FALSE

\* Mutant of ResolutionClass: the 4K threshold is exclusive.
ResolutionClassExclusive(height) ==
  IF height > Height4K THEN "4K"
  ELSE IF height >= Height1080p THEN "1080p"
  ELSE IF height >= Height720p THEN "720p"
  ELSE "SD"

\* Lines 185, 191, 197, 203: the branch taken
ResolutionClass(height) ==
  IF height >= Height4K THEN "4K"
  ELSE IF height >= Height1080p THEN "1080p"
  ELSE IF height >= Height720p THEN "720p"
  ELSE "SD"

Tier(analysis) ==
  CASE ResolutionClass(analysis.height) = "4K" ->
    [preset |-> <<"Very", "Slow">>, quality |-> "20", video_encoder |-> "x265",
     estimated_compression |-> 4,
     reasoning |-> "4K content: Using x265 with CRF 20 for maximum compression while maintaining quality"]
  [] ResolutionClass(analysis.height) = "1080p" ->
    [preset |-> <<"Slow">>,
     quality |-> IF BitsPerPixelAbove(analysis) THEN "22" ELSE "20",
     video_encoder |-> "x264",
     estimated_compression |-> 5,
     reasoning |-> "1080p content: Using x264 with balanced settings for good compression"]
  [] ResolutionClass(analysis.height) = "720p" ->
    [preset |-> <<"Medium">>, quality |-> "23", video_encoder |-> "x264",
     estimated_compression |-> 6,
     reasoning |-> "720p content: Using medium preset for faster encoding"]
  [] OTHER ->
    [preset |-> <<"Fast">>, quality |-> "25", video_encoder |-> "x264",
     estimated_compression |-> 7,
     reasoning |-> "SD content: Using fast preset with higher CRF"]

\* Mutant of AudioEncoder: ac3 is passed through as well.
AudioEncoderAc3(analysis) ==
  IF analysis.audio_codec \in {"aac", "mp3", "ac3"} THEN "copy" ELSE "aac"

\* Lines 211-214
AudioEncoder(analysis) ==
  IF analysis.audio_codec \in {"aac", "mp3"} THEN "copy" ELSE "aac"

Container == "mp4"

W(seq) == [i \in 1..Len(seq) |-> Word(seq[i])]

HandbrakeCmd(analysis) ==
  LET t == Tier(analysis)
      base == << W(<<"HandBrakeCLI">>),
                 W(<<"-i">>), analysis.file_path,
                 W(<<"-o">>), OptimizedName(analysis.filename, Container),
                 W(<<"--preset">>), W(t.preset),
                 W(<<"--encoder">>), W(<<t.video_encoder>>),
                 W(<<"--quality">>), W(<<t.quality>>),
                 W(<<"--aencoder">>), W(<<AudioEncoder(analysis)>>),
                 W(<<"--format">>), W(<<Container>>) >>
  IN  IF t.video_encoder = "x265"
        THEN base \o << W(<<"--encoder-preset">>), W(<<"medium">>) >>
        ELSE base

\* Mutant of generate_handbrake_settings: the settings refer to themselves
\* instead of the analysis they were derived from.
generate_handbrake_settings_self(analysis, new_id, now) ==
  [id |-> new_id,
   video_analysis_id |-> new_id,
   preset |-> Tier(analysis).preset,
   video_encoder |-> Tier(analysis).video_encoder,
   quality |-> Tier(analysis).quality,
   audio_encoder |-> AudioEncoder(analysis),
   container |-> Container,
   estimated_compression |-> Tier(analysis).estimated_compression,
   full_command |-> Join(HandbrakeCmd(analysis)),
   reasoning |-> Tier(analysis).reasoning,
   created_at |-> now]

\* new_id is the uuid4 and now the utcnow() of the two default factories
generate_handbrake_settings(analysis, new_id, now) ==
  LET t == Tier(analysis)
  IN  [id |-> new_id,
       video_analysis_id |-> analysis.id,
       preset |-> t.preset,
       video_encoder |-> t.video_encoder,
       quality |-> t.quality,
       audio_encoder |-> AudioEncoder(analysis),
       container |-> Container,
       estimated_compression |-> t.estimated_compression,
       full_command |-> Join(HandbrakeCmd(analysis)),
       reasoning |-> t.reasoning,
       created_at |-> now]


(***************************************************************************)
(* State.                                                                  *)
(***************************************************************************)
VARIABLES
  video_analyses,      \* db.video_analyses: the documents
  handbrake_settings,  \* db.handbrake_settings: the documents
  handbrake_jobs,      \* db.handbrake_jobs: the documents, in insertion order
  fs,                  \* the file system: path (word list) -> content of the file there
  requests,            \* analyze_video_file coroutines in flight
  n_uploads,           \* analyze-video requests received so far
  tasks,               \* tasks[j]: the run_handbrake_job coroutine of handbrake_jobs[j]
  utcnow,              \* the value of datetime.utcnow()
  response,            \* the HTTP response sent last: route and status code
  profile,             \* advisor runs: the analysis handed to generate_handbrake_settings
  plans                \* advisor runs: the settings it returned, call by call

vars == <<video_analyses, handbrake_settings, handbrake_jobs, fs, requests, n_uploads,
          tasks, response, utcnow, profile, plans>>

pipeline_vars == <<video_analyses, handbrake_settings, handbrake_jobs, fs, requests,
                   n_uploads, tasks, response>>

advisor_vars == <<profile, plans, utcnow>>

(***************************************************************************)
(* The uploaded media.  A file's content is identified with the media it   *)
(* holds, so that ffmpeg.probe is a function of the content.               *)
(***************************************************************************)
Encoded == "encoded"       \* what the encoder writes at its output path

\* The uploads a client sends: file name and content.
Uploads ==
  { [filename |-> [stem |-> <<"a">>, ext |-> "mp4"], content |-> "uhd"],
    [filename |-> [stem |-> <<"a">>, ext |-> "mp4"], content |-> "novideo"] }

\* ffmpeg.probe(file_path), reduced to the fields the settings read
Probe(content) ==
  CASE content = "uhd" -> [has_video |-> TRUE, width |-> 3840, height |-> 2160,
                           video_bitrate |-> Some(40000000), audio_codec |-> "aac"]
    [] OTHER           -> [has_video |-> FALSE, width |-> 0, height |-> 0,
                           video_bitrate |-> None, audio_codec |-> "none"]

\* VideoAnalysis(**analyze_video_with_ffmpeg(str(file_path)))
VideoAnalysis(new_id, name, probe) ==
  [id |-> new_id,
   filename |-> name,
   file_path |-> JoinPath(UPLOAD_DIR, NameWords(name)),
   width |-> probe.width,
   height |-> probe.height,
   video_bitrate |-> probe.video_bitrate,
   audio_codec |-> probe.audio_codec]

\* Mutant of HandbrakeJob: the job refers to itself instead of its settings.
HandbrakeJobDangling(new_id, analysis, settings) ==
  [id |-> new_id,
   video_analysis_id |-> analysis.id,
   input_file |-> analysis.file_path,
   output_file |-> OptimizedName(analysis.filename, "mp4"),
   handbrake_settings_id |-> new_id,
   status |-> "queued",
   progress |-> 0,
   started_at |-> None,
   completed_at |-> None,
   error_message |-> None]

\* HandbrakeJob(video_analysis_id=..., input_file=..., output_file=..., handbrake_settings_id=...)
HandbrakeJob(new_id, analysis, settings) ==
  [id |-> new_id,
   video_analysis_id |-> analysis.id,
   input_file |-> analysis.file_path,
   output_file |-> OptimizedName(analysis.filename, "mp4"),
   handbrake_settings_id |-> settings.id,
   status |-> "queued",
   progress |-> 0,
   started_at |-> None,
   completed_at |-> None,
   error_message |-> None]

\* A call on db returns (TRUE) or raises (FALSE): the server may be
\* unreachable at any call.
DbCall == BOOLEAN

\* collection.find_one({key: value}) on video_analyses and handbrake_settings
\* (sets of documents; no two hold the same id or the same video_analysis_id)
FindOne(coll, key, value) ==
  LET hit == {d \in coll : d[key] = value}
  IN  IF hit = {} THEN None ELSE Some(CHOOSE d \in hit : TRUE)

\* db.handbrake_jobs.find_one({"id": id}): the first match, or None
Matches(coll, key, value) == {i \in 1..Len(coll) : coll[i][key] = value}
FindJob(coll, id) ==
  IF Matches(coll, "id", id) = {} THEN None
  ELSE Some(coll[CHOOSE i \in Matches(coll, "id", id) :
                   \A k \in Matches(coll, "id", id) : i <= k])

\* collection.update_one({"id": id}, {"$set": fields}): the first match is updated
UpdateOne(coll, id, fields) ==
  LET hit == Matches(coll, "id", id)
      first == CHOOSE i \in hit : \A k \in hit : i <= k
  IN  IF hit = {} THEN coll
      ELSE [coll EXCEPT ![first] =
              [f \in DOMAIN @ |-> IF f \in DOMAIN fields THEN fields[f] ELSE @[f]]]

\* The HTTP response a handler returns, or the HTTPException that leaves it
Response(route, status_code) == Some([route |-> route, status_code |-> status_code])

WriteFile(files, path, content) ==
  [p \in DOMAIN files \cup {path} |-> IF p = path THEN content ELSE files[p]]


(***************************************************************************)
(* analyze_video_file: POST /api/analyze-video                             *)
(***************************************************************************)
\* The requests served so far that wrote a file or a job
Served == n_uploads + Len(handbrake_jobs)

\* Lines 353-361: the upload is written at temp_dir / file.filename,
\* replacing whatever file is there.
AnalyzeSave(name, content) ==
  /\ Served < MaxRequests
  /\ n_uploads' = n_uploads + 1
  /\ fs' = WriteFile(fs, JoinPath(UPLOAD_DIR, NameWords(name)), content)
  /\ requests' = requests \cup {[n |-> n_uploads + 1, pc |-> "saved", filename |-> name,
                                       analysis |-> None]}
  /\ UNCHANGED <<video_analyses, handbrake_settings, handbrake_jobs, tasks, response,
                 advisor_vars>>

\* The response of analyze_video_with_ffmpeg: the analysis data, or the
\* HTTPException that leaves it.  The HTTPException(400) of line 119 is
\* raised inside the try block and caught by line 168, which raises 500.
analyze_video_with_ffmpeg(files, path) ==
  IF path \notin DOMAIN files THEN [status_code |-> 500, data |-> None]
  ELSE IF ~Probe(files[path]).has_video THEN [status_code |-> 500, data |-> None]
  ELSE [status_code |-> 200, data |-> Some(Probe(files[path]))]

\* Lines 363-368: probe the saved file and insert the analysis.
AnalyzeInsert(r) ==
  /\ r \in requests
  /\ r.pc = "saved"
  /\ \E db_up \in DbCall :
     LET path == JoinPath(UPLOAD_DIR, NameWords(r.filename))
         res == analyze_video_with_ffmpeg(fs, path)
     IN  IF res.status_code = 200 /\ db_up
           THEN LET analysis == VideoAnalysis(Uuid4("analysis", r.n), r.filename,
                                                  res.data[1])
                IN  /\ video_analyses' = video_analyses \cup {analysis}
                    /\ requests' = (requests \ {r}) \cup
                                     {[n |-> r.n, pc |-> "analysed", filename |-> r.filename,
                                       analysis |-> Some(analysis)]}
                    /\ UNCHANGED response
           ELSE \* Lines 377-379: whatever was raised leaves the handler as
                \* HTTPException(500); the request ends, the file stays
                /\ requests' = requests \ {r}
                /\ response' = Response("analyze-video", 500)
                /\ UNCHANGED video_analyses
  /\ UNCHANGED <<handbrake_settings, handbrake_jobs, fs, n_uploads, tasks,
                 advisor_vars>>

\* Lines 370-375: derive the settings and insert them.
AnalyzeSettings(r) ==
  /\ r \in requests
  /\ r.pc = "analysed"
  /\ \E db_up \in DbCall :
     LET settings == generate_handbrake_settings(r.analysis[1], Uuid4("settings", r.n),
                                                 utcnow)
     IN  /\ handbrake_settings' =
              IF db_up THEN handbrake_settings \cup {settings} ELSE handbrake_settings
         /\ response' = Response("analyze-video", IF db_up THEN 200 ELSE 500)
  /\ requests' = requests \ {r}
  /\ UNCHANGED <<video_analyses, handbrake_jobs, fs, n_uploads, tasks, advisor_vars>>

(***************************************************************************)
(* queue_handbrake_job: POST /api/queue-handbrake/{analysis_id}            *)
(***************************************************************************)
\* original is a history field: the content of the input file when the
\* worker began (no code reads it).
NewTask == [pc |-> "start", returncode |-> None, stderr |-> None, exc |-> None,
            original |-> None]

\* Lines 408-443.  The two lookups read documents that are never updated
\* or deleted, so the handler is one step at the time of its insert.
queue_handbrake_job(analysis_id) ==
  LET analysis_doc == FindOne(video_analyses, "id", analysis_id)
      settings_doc == FindOne(handbrake_settings, "video_analysis_id", analysis_id)
  IN  /\ Served < MaxRequests
      /\ \E db_up \in DbCall :
         IF ~db_up \/ analysis_doc = None \/ settings_doc = None
           THEN \* 500, 404 "Analysis not found", 404 "Settings not found"
                /\ response' = Response("queue-handbrake", IF db_up THEN 404 ELSE 500)
                /\ UNCHANGED <<handbrake_jobs, tasks>>
           ELSE /\ response' = Response("queue-handbrake", 200)
                /\ handbrake_jobs' =
                     Append(handbrake_jobs,
                            HandbrakeJob(Uuid4("job", Len(handbrake_jobs) + 1),
                                         analysis_doc[1], settings_doc[1]))
                /\ tasks' = Append(tasks, NewTask)
      /\ UNCHANGED <<video_analyses, handbrake_settings, fs, requests, n_uploads,
                     advisor_vars>>


(***************************************************************************)
(* run_handbrake_job: the background task of one job.  Each action is the  *)
(* code between two awaits; the database call takes effect, or raises,     *)
(* in that step.  subprocess.Popen and process.communicate() do not await: *)
(* the encoder runs to its exit inside one step.                           *)
(***************************************************************************)
Goto(j, label) == [tasks EXCEPT ![j].pc = label]
\* the coroutine has returned, or an exception has left it: its locals are gone
Return(j, how) == [tasks EXCEPT ![j] = [pc |-> how, returncode |-> None,
                                       stderr |-> None, exc |-> None,
                                       original |-> None]]

FileAt(files, path) == IF path \in DOMAIN files THEN Some(files[path]) ELSE None
Raise(j, message) == [tasks EXCEPT ![j].pc = "except", ![j].exc = Some(message)]

DbError == "ServerSelectionTimeoutError"
SettingsNotFound == "Handbrake settings not found"
SpawnError == "[Errno 2] No such file or directory: 'HandBrakeCLI'"

\* Lines 283-295: the argument vector handed to subprocess.Popen
FirstOutputFlag(cmd) ==
  {i \in 1..Len(cmd) : /\ cmd[i] = Word("-o")
                       /\ i + 1 <= Len(cmd)
                       /\ \A k \in 1..(i - 1) : ~(cmd[k] = Word("-o") /\ k + 1 <= Len(cmd))}

Argv(settings) ==
  LET cmd_parts == Tail(Split(settings.full_command))
      cmd == <<Word("HandBrakeCLI")>> \o cmd_parts
  IN  [i \in 1..Len(cmd) |->
         IF i > 1 /\ (i - 1) \in FirstOutputFlag(cmd)
           THEN [dir |-> OUTPUT_DIR, base |-> PathName(cmd[i]).base]
           ELSE cmd[i]]

\* The file the encoder writes when it exits 0: the argument after its -o
OutputPath(argv) ==
  LET at == FirstOutputFlag(argv) IN {<<argv[i + 1]>> : i \in at}

\* The outcomes of Popen + communicate(): Popen raises, or the process
\* exits with a return code and a captured standard error.
EncoderOutcomes ==
  { [spawned |-> FALSE, returncode |-> 0, stderr |-> ""],
    [spawned |-> TRUE, returncode |-> 0, stderr |-> ""],
    [spawned |-> TRUE, returncode |-> 1, stderr |-> ""],
    [spawned |-> TRUE, returncode |-> 1, stderr |-> "Encode failed"] }

\* Lines 262-273.  find_one reads only that the job document exists, and
\* job documents are never deleted: it commutes with every step of every
\* other coroutine, so it is taken in one step with the update that follows.
WorkerMarkRunning(j) ==
  /\ j \in 1..Len(tasks)
  /\ tasks[j].pc = "start"
  /\ \E find_up \in DbCall, db_up \in DbCall :
     IF ~find_up
       THEN /\ tasks' = Raise(j, DbError)
            /\ UNCHANGED handbrake_jobs
     ELSE IF FindJob(handbrake_jobs, handbrake_jobs[j].id) = None
       THEN /\ tasks' = Return(j, "done")
            /\ UNCHANGED handbrake_jobs
     ELSE IF ~db_up
       THEN /\ tasks' = Raise(j, DbError)
            /\ UNCHANGED handbrake_jobs
       ELSE /\ handbrake_jobs' =
                 UpdateOne(handbrake_jobs, handbrake_jobs[j].id,
                           [status |-> "running", started_at |-> Some(utcnow)])
            /\ tasks' = [tasks EXCEPT ![j].pc = "marked",
                                      ![j].original =
                                        FileAt(fs, handbrake_jobs[j].input_file)]
  /\ UNCHANGED <<video_analyses, handbrake_settings, fs, requests, n_uploads, response,
                 advisor_vars>>

\* Lines 275-308
WorkerEncode(j) ==
  /\ j \in 1..Len(tasks)
  /\ tasks[j].pc = "marked"
  /\ \E db_up \in DbCall :
     LET settings_doc == FindOne(handbrake_settings, "id",
                                 handbrake_jobs[j].handbrake_settings_id)
     IN  IF ~db_up
           THEN tasks' = Raise(j, DbError) /\ UNCHANGED fs
         ELSE IF settings_doc = None
           THEN tasks' = Raise(j, SettingsNotFound) /\ UNCHANGED fs
         ELSE \E out \in EncoderOutcomes :
                IF ~out.spawned
                  THEN tasks' = Raise(j, SpawnError) /\ UNCHANGED fs
                  ELSE /\ tasks' = [tasks EXCEPT ![j].pc = "exited",
                                                 ![j].returncode = Some(out.returncode),
                                                 ![j].stderr = Some(out.stderr)]
                       /\ fs' = IF out.returncode = 0
                                  THEN LET target == OutputPath(Argv(settings_doc[1]))
                                       IN  [p \in DOMAIN fs \cup target |->
                                              IF p \in target THEN Encoded ELSE fs[p]]
                                  ELSE fs
  /\ UNCHANGED <<video_analyses, handbrake_settings, handbrake_jobs, requests,
                 n_uploads, response, advisor_vars>>

\* Mutant of CompletedFields: the progress is not written.
CompletedFieldsNoProgress(now) ==
  [status |-> "completed", completed_at |-> Some(now)]

\* Lines 312-319: the $set of the success branch
CompletedFields(now) ==
  [status |-> "completed", progress |-> 100, completed_at |-> Some(now)]

\* Mutant of FailedFields: a failed job is put back in the queue.
FailedFieldsRequeue(message, now) ==
  [status |-> "queued", error_message |-> Some(message), completed_at |-> Some(now)]

\* Lines 323-330 and 335-342: the $set of the two failure branches
FailedFields(message, now) ==
  [status |-> "failed", error_message |-> Some(message), completed_at |-> Some(now)]

\* Lines 310-331
WorkerFinish(j) ==
  /\ j \in 1..Len(tasks)
  /\ tasks[j].pc = "exited"
  /\ \E db_up \in DbCall :
     IF ~db_up
       THEN /\ tasks' = Raise(j, DbError)
            /\ UNCHANGED handbrake_jobs
       ELSE /\ handbrake_jobs' =
                 UpdateOne(handbrake_jobs, handbrake_jobs[j].id,
                           IF tasks[j].returncode = Some(0)
                             THEN CompletedFields(utcnow)
                             ELSE FailedFields(tasks[j].stderr[1], utcnow))
            /\ tasks' = Return(j, "done")
  /\ UNCHANGED <<video_analyses, handbrake_settings, fs, requests, n_uploads, response,
                 advisor_vars>>

\* Lines 333-342: the handler of every exception of the body.  Its own
\* update_one is not guarded: when it raises, the exception leaves the task.
WorkerExcept(j) ==
  /\ j \in 1..Len(tasks)
  /\ tasks[j].pc = "except"
  /\ \E db_up \in DbCall :
     IF ~db_up
       THEN /\ tasks' = Return(j, "raised")
            /\ UNCHANGED handbrake_jobs
       ELSE /\ handbrake_jobs' =
                 UpdateOne(handbrake_jobs, handbrake_jobs[j].id,
                           FailedFields(tasks[j].exc[1], utcnow))
            /\ tasks' = Return(j, "done")
  /\ UNCHANGED <<video_analyses, handbrake_settings, fs, requests, n_uploads, response,
                 advisor_vars>>

Worker(j) ==
  \/ WorkerMarkRunning(j)
  \/ WorkerEncode(j)
  \/ WorkerFinish(j)
  \/ WorkerExcept(j)

(***************************************************************************)
(* The pipeline.                                                           *)
(***************************************************************************)
NoProfile ==
  [id |-> Uuid4("analysis", 0), filename |-> [stem |-> <<"a">>, ext |-> "mp4"], file_path |-> <<>>,
   width |-> 0, height |-> 0, video_bitrate |-> None, audio_codec |-> "none"]

Init ==
  /\ video_analyses = {}
  /\ handbrake_settings = {}
  /\ handbrake_jobs = <<>>
  /\ fs = <<>>
  /\ requests = {}
  /\ n_uploads = 0
  /\ tasks = <<>>
  /\ response = None
  /\ utcnow = 0
  /\ profile = NoProfile
  /\ plans = <<>>

Next ==
  \/ \E up \in Uploads : AnalyzeSave(up.filename, up.content)
  \/ \E r \in requests : AnalyzeInsert(r)
  \/ \E r \in requests : AnalyzeSettings(r)
  \/ \E n \in 1..MaxRequests : queue_handbrake_job(Uuid4("analysis", n))
  \/ \E j \in 1..MaxRequests : Worker(j)

Spec == Init /\ [][Next]_vars


\* The event loop runs every coroutine that is ready: a background task or
\* a request handler that can take a step eventually takes it.  Nothing
\* obliges a client to send a request.
Handlers == \E r \in requests : AnalyzeInsert(r) \/ AnalyzeSettings(r)

FairSpec ==
  /\ Spec
  /\ \A j \in 1..MaxRequests : WF_vars(Worker(j))
  /\ WF_vars(Handlers)

(***************************************************************************)
(* The settings advisor on its own: one analysis, derived MaxCalls times.  *)
(***************************************************************************)
Heights == {0, 480, Height720p - 1, Height720p, Height1080p - 1, Height1080p, 1440,
            Height4K - 1, Height4K, 4320}
Widths == {0, 1280, 1920, 3840}
\* 311040 / (1920 * 1080) = 0.15 and 207360 / (1280 * 1080) = 0.15
Bitrates == {None, Some(0), Some(207360), Some(207361), Some(311040), Some(311041),
             Some(8000000)}
AudioCodecs == {"aac", "mp3", "ac3", "none", "unknown"}
AdvisorFileNames ==
  { [stem |-> <<"a">>, ext |-> "mp4"],
    [stem |-> <<"my", "clip">>, ext |-> "mkv"],
    [stem |-> <<"x", "-o", "y">>, ext |-> "mp4"] }

Profiles ==
  { VideoAnalysis(Uuid4("analysis", 1), name,
                  [has_video |-> TRUE, width |-> w, height |-> h, video_bitrate |-> b,
                   audio_codec |-> a]) :
      name \in AdvisorFileNames, w \in Widths, h \in Heights, b \in Bitrates,
      a \in AudioCodecs }

InitAdvisor ==
  /\ video_analyses = {}
  /\ handbrake_settings = {}
  /\ handbrake_jobs = <<>>
  /\ fs = <<>>
  /\ requests = {}
  /\ n_uploads = 0
  /\ tasks = <<>>
  /\ response = None
  /\ utcnow = 0
  /\ profile \in Profiles
  /\ plans = <<>>

\* One more call of generate_handbrake_settings(profile)
Derive ==
  /\ Len(plans) < MaxCalls
  /\ plans' = Append(plans, generate_handbrake_settings(
                              profile, Uuid4("settings", Len(plans) + 1), utcnow))
  /\ UNCHANGED <<pipeline_vars, profile, utcnow>>

\* Time passes between two calls
Tick ==
  /\ utcnow < MaxClock
  /\ utcnow' = utcnow + 1
  /\ UNCHANGED <<pipeline_vars, profile, plans>>

NextAdvisor == Derive \/ Tick

SpecAdvisor == InitAdvisor /\ [][NextAdvisor]_vars


(***************************************************************************)
(* Properties of the job pipeline (Spec, FairSpec).                        *)
(***************************************************************************)
Jobs == 1..Len(handbrake_jobs)
Terminal == {"completed", "failed"}
StatusOf(j) == handbrake_jobs[j].status

\* C1, as stated: a job's status only ever moves queued -> running and
\* running -> completed or failed; nothing else, and nothing after a
\* terminal status.
C1_StatusOrder ==
  [][\A j \in Jobs :
       handbrake_jobs'[j].status # StatusOf(j) =>
         \/ StatusOf(j) = "queued" /\ handbrake_jobs'[j].status = "running"
         \/ StatusOf(j) = "running" /\ handbrake_jobs'[j].status \in Terminal]_vars

\* C1, amended: as C1_StatusOrder, except that failed is also entered
\* straight from queued (the worker's exception handler runs for a database
\* call that raises before running is recorded).  A job is created queued,
\* running is entered only from queued, completed only from running, and a
\* completed or failed job never changes status again.
C1_StatusOrderAmended ==
  [][/\ \A j \in Jobs :
          handbrake_jobs'[j].status # StatusOf(j) =>
            \/ StatusOf(j) = "queued" /\ handbrake_jobs'[j].status \in {"running", "failed"}
            \/ StatusOf(j) = "running" /\ handbrake_jobs'[j].status \in Terminal
     /\ \A j \in (1..Len(handbrake_jobs')) \ Jobs : handbrake_jobs'[j].status = "queued"
     /\ Len(handbrake_jobs') >= Len(handbrake_jobs)]_vars

\* C1 witness: a job has gone queued -> running -> completed while another
\* was failed without ever having been running.
C1_Witness ==
  \E j, k \in Jobs :
    /\ StatusOf(j) = "completed" /\ handbrake_jobs[j].started_at # None
    /\ StatusOf(k) = "failed" /\ handbrake_jobs[k].started_at = None

\* The staging path the specification gives a job's input file: the same
\* base name under a fixed staging root.
STAGING_DIR == "/tmp/handbrake_staging"
StagingPath(input_file) ==
  [i \in 1..Len(input_file) |->
     IF i = 1 THEN [dir |-> STAGING_DIR, base |-> input_file[1].base] ELSE input_file[i]]

\* C2, as stated: until a job is completed exactly one of its input path
\* and its staging path holds a file; while it is running that is the
\* staging path; once it is completed neither holds one.
C2_StagedWhileRunning ==
  \A j \in Jobs :
    LET input == handbrake_jobs[j].input_file
        at_input == input \in DOMAIN fs
        at_staging == StagingPath(input) \in DOMAIN fs
    IN  /\ StatusOf(j) # "completed" => (at_input /\ ~at_staging) \/ (~at_input /\ at_staging)
        /\ StatusOf(j) = "running" => at_staging /\ ~at_input
        /\ StatusOf(j) = "completed" => ~at_staging /\ ~at_input

\* The jobs being transcoded: status running, and the worker still inside
\* run_handbrake_job
Transcoding ==
  {j \in Jobs : StatusOf(j) = "running" /\ tasks[j].pc \notin {"done", "raised"}}

\* C3, as stated: at most one job is being transcoded at any time.
C3_SingleFlight == Cardinality(Transcoding) <= 1

\* C4, as stated: a job has left queued only if every job enqueued before
\* it has reached completed or failed.
C4_Fifo ==
  \A i, k \in Jobs :
    i < k /\ StatusOf(k) # "queued" => StatusOf(i) \in Terminal

\* C5, as stated: when the worker returns after a nonzero exit code, the
\* job is failed, has a completion time, its error text is the captured
\* standard error and is not empty, and the input path holds the file it
\* held when the worker began.
C5_FailureRestores ==
  [][\A j \in 1..Len(tasks) :
       /\ tasks[j].pc = "exited"
       /\ tasks[j].returncode # Some(0)
       /\ tasks'[j].pc = "done"
       => /\ handbrake_jobs'[j].status = "failed"
          /\ handbrake_jobs'[j].completed_at # None
          /\ handbrake_jobs'[j].error_message = tasks[j].stderr
          /\ handbrake_jobs'[j].error_message # Some("")
          /\ FileAt(fs', handbrake_jobs[j].input_file) = tasks[j].original
          /\ tasks[j].original # None]_vars

\* C6, as stated: no exception leaves run_handbrake_job, and a task that
\* has returned has left its job completed, or failed with an error text.
C6_FailuresCaptured ==
  \A j \in 1..Len(tasks) :
    /\ tasks[j].pc # "raised"
    /\ tasks[j].pc = "done" =>
         \/ StatusOf(j) = "completed"
         \/ StatusOf(j) = "failed" /\ handbrake_jobs[j].error_message # None

\* C7, as stated: every job that has been enqueued is eventually
\* completed or failed.
C7_EveryJobEnds ==
  \A j \in 1..MaxRequests :
    (Len(handbrake_jobs) >= j) ~>
      (Len(handbrake_jobs) >= j /\ handbrake_jobs[j].status \in Terminal)


(***************************************************************************)
(* Properties of the settings advisor (SpecAdvisor).                       *)
(***************************************************************************)
Calls == 1..Len(plans)

\* C8: the tier is chosen by height, first match from high to low, with
\* the flips at 2160, 1080 and 720; every plan has a preset and an encoder
\* of the fixed sets, container mp4 and 0 < estimated_compression < 1.
C8_Tiering ==
  \A c \in Calls :
    LET p == plans[c]
        h == profile.height
    IN  /\ h >= 2160 =>
             /\ p.preset = <<"Very", "Slow">> /\ p.video_encoder = "x265"
             /\ p.quality = "20" /\ p.estimated_compression = 4
        /\ h >= 1080 /\ h < 2160 =>
             /\ p.preset = <<"Slow">> /\ p.video_encoder = "x264"
             /\ p.estimated_compression = 5
        /\ h >= 720 /\ h < 1080 =>
             /\ p.preset = <<"Medium">> /\ p.video_encoder = "x264"
             /\ p.quality = "23" /\ p.estimated_compression = 6
        /\ h < 720 =>
             /\ p.preset = <<"Fast">> /\ p.video_encoder = "x264"
             /\ p.quality = "25" /\ p.estimated_compression = 7
        /\ p.preset \in {<<"Very", "Slow">>, <<"Slow">>, <<"Medium">>, <<"Fast">>}
        /\ p.video_encoder \in {"x264", "x265"}
        /\ p.container = "mp4"
        /\ 0 < p.estimated_compression /\ p.estimated_compression < 10  \* tenths

\* C8 witness: a plan derived one line below the top boundary
C8_Witness ==
  /\ Len(plans) > 0
  /\ profile.height = 2159
  /\ plans[1].preset = <<"Slow">>

\* C9: in the 1080 tier the quality is "22" exactly when
\* video_bitrate / (width * height) > 0.15, that is 20 * bitrate > 3 * pixels
\* with pixels > 0, and "20" otherwise (no bitrate, zero bitrate, zero
\* area and exactly 0.15 included).
C9_BitsPerPixel ==
  \A c \in Calls :
    LET pixels == profile.width * profile.height
        bitrate == IF profile.video_bitrate = None THEN 0 ELSE profile.video_bitrate[1]
    IN  profile.height >= 1080 /\ profile.height < 2160 =>
          plans[c].quality = IF pixels > 0 /\ 20 * bitrate > 3 * pixels THEN "22" ELSE "20"

\* C9 witness: 1920x1080 at exactly 0.15 bits per pixel gets the looser value
C9_Witness ==
  /\ Len(plans) > 0
  /\ profile.height = 1080 /\ profile.width = 1920
  /\ profile.video_bitrate = Some(311040)
  /\ plans[1].quality = "20"

Derived(plan) == [f \in (DOMAIN plan) \ {"id", "created_at"} |-> plan[f]]

C11_AudioPassThrough ==
  \A c \in Calls :
    /\ plans[c].audio_encoder \in {"copy", "aac"}
    /\ plans[c].audio_encoder = "copy" <=> profile.audio_codec \in {"aac", "mp3"}
    /\ \E i \in 1..(Len(plans[c].full_command) - 1) :
         /\ plans[c].full_command[i] = Word("--aencoder")
         /\ plans[c].full_command[i + 1] = Word(plans[c].audio_encoder)

\* C11 witness: a 4K source without an audio stream is given the default codec
C11_Witness ==
  /\ Len(plans) > 0
  /\ profile.audio_codec = "none"
  /\ profile.height = 2160
  /\ plans[1].audio_encoder = "aac"

\* The position in an argument list of the argument that follows flag
ArgAfter(cmd, flag) == 1 + CHOOSE i \in 1..(Len(cmd) - 1) : cmd[i] = W(<<flag>>)

\* C13, as stated: the argument vector the worker hands to the encoder
\* has one element for every argument of the list built by
\* generate_handbrake_settings, in the same order and with the same text,
\* except that the argument after -o is the same base name under the output
\* root.  (The input argument is accepted both as generated and as the
\* staging path, so that the missing staging step does not decide this.)
C13_ArgvAsGenerated ==
  \A c \in Calls :
    LET cmd == HandbrakeCmd(profile)
        argv == Argv(plans[c])
    IN  /\ Len(argv) = Len(cmd)
        /\ \A i \in 1..Len(cmd) :
             IF i = ArgAfter(cmd, "-o")
               THEN <<argv[i]>> = JoinPath(OUTPUT_DIR, cmd[i])
             ELSE IF i = ArgAfter(cmd, "-i")
               THEN <<argv[i]>> \in {cmd[i], StagingPath(cmd[i])}
             ELSE <<argv[i]>> = cmd[i]

(***************************************************************************)
(* Properties of the request handlers (Spec).                              *)
(***************************************************************************)
UploadPath(r) == JoinPath(UPLOAD_DIR, NameWords(r.filename))

\* The saved file of request r is there and holds no video stream
NoVideoStreamAt(r) ==
  /\ FileAt(fs, UploadPath(r)) # None
  /\ ~Probe(fs[UploadPath(r)]).has_video

\* C12, as stated: when the probed file has no video stream the prober
\* fails with status 400, 400 is the status of the response the caller
\* receives, and the request creates no analysis, no settings and no job.
C12_NoVideoStream ==
  [][\A r \in requests :
       r.pc = "saved" /\ NoVideoStreamAt(r) /\ AnalyzeInsert(r)
       => /\ analyze_video_with_ffmpeg(fs, UploadPath(r)).status_code = 400
          /\ response' = Response("analyze-video", 400)
          /\ UNCHANGED <<video_analyses, handbrake_settings, handbrake_jobs>>]_vars

\* C14, as stated: while a job is running (its worker still inside
\* run_handbrake_job), no step changes the file at the job's input path; in
\* particular no upload of the same file name replaces it.
C14_InputFileOwned ==
  [][\A j \in Transcoding :
       FileAt(fs', handbrake_jobs[j].input_file) =
         FileAt(fs, handbrake_jobs[j].input_file)]_vars

\* C15, as stated: in every state and for every job, error_message is set
\* only if the status is failed; completed_at is set exactly when the status
\* is completed or failed; started_at is set exactly when the status is
\* running, completed or failed; and a completed job has progress 100.
C15_FieldsMatchStatus ==
  \A j \in Jobs :
    LET job == handbrake_jobs[j]
    IN  /\ job.error_message # None => job.status = "failed"
        /\ job.completed_at # None <=> job.status \in Terminal
        /\ job.started_at # None <=> job.status \in {"running", "completed", "failed"}
        /\ job.status = "completed" => job.progress = 100

\* C15, amended: as C15_FieldsMatchStatus, except that a failed job may
\* have no started_at (it failed before running was recorded): started_at
\* is set whenever the status is running or completed, and set only if the
\* status is running, completed or failed.  Moreover a failed job has an
\* error_message, and a job that is not completed has progress 0.
C15_FieldsMatchStatusAmended ==
  \A j \in Jobs :
    LET job == handbrake_jobs[j]
    IN  /\ job.error_message # None <=> job.status = "failed"
        /\ job.completed_at # None <=> job.status \in Terminal
        /\ job.status \in {"running", "completed"} => job.started_at # None
        /\ job.started_at # None => job.status \in {"running", "completed", "failed"}
        /\ job.status = "completed" => job.progress = 100
        /\ job.status # "completed" => job.progress = 0

\* C15 witness: a running job, a completed job and a job that failed
\* without ever having been started, side by side
C15_Witness ==
  \E r, c, f \in Jobs :
    /\ StatusOf(r) = "running" /\ handbrake_jobs[r].completed_at = None
    /\ StatusOf(c) = "completed" /\ handbrake_jobs[c].progress = 100
    /\ StatusOf(f) = "failed" /\ handbrake_jobs[f].started_at = None
    /\ handbrake_jobs[f].error_message # None

\* The analysis, or a settings record of the analysis, is not in the database
Missing(analysis_id) ==
  \/ FindOne(video_analyses, "id", analysis_id) = None
  \/ FindOne(handbrake_settings, "video_analysis_id", analysis_id) = None

\* The job records refer to an analysis and to a settings record of that
\* analysis that are in the database
Referenced(jobs, analyses, settings) ==
  \A j \in 1..Len(jobs) :
    /\ \E a \in analyses : a.id = jobs[j].video_analysis_id
    /\ \E st \in settings : /\ st.id = jobs[j].handbrake_settings_id
                             /\ st.video_analysis_id = jobs[j].video_analysis_id

\* A step that adds a job record adds exactly one, in status queued and for
\* an analysis that is not Missing, schedules one worker run for it and
\* answers 200; no other step adds a worker run or removes a job record.
JobCreatedGuarded ==
  /\ Len(handbrake_jobs') >= Len(handbrake_jobs)
  /\ Len(tasks') = Len(handbrake_jobs')
  /\ Len(handbrake_jobs') > Len(handbrake_jobs) =>
       LET job == handbrake_jobs'[Len(handbrake_jobs')]
       IN  /\ handbrake_jobs' = Append(handbrake_jobs, job)
           /\ tasks' = Append(tasks, NewTask)
           /\ job.status = "queued"
           /\ ~Missing(job.video_analysis_id)
           /\ response' = Response("queue-handbrake", 200)
  /\ Referenced(handbrake_jobs', video_analyses', handbrake_settings')

\* C16, as stated: queue_handbrake_job creates a job and schedules its
\* worker only when the analysis and a settings record for it exist; when
\* either is missing it answers 404, no job record changes and no worker
\* is scheduled; every job is queued at creation and refers to an existing
\* analysis and an existing settings record.
C16_QueueGuarded ==
  [][/\ \A n \in 1..MaxRequests :
          queue_handbrake_job(Uuid4("analysis", n)) /\ Missing(Uuid4("analysis", n))
          => /\ response' = Response("queue-handbrake", 404)
             /\ UNCHANGED <<handbrake_jobs, tasks>>
     /\ JobCreatedGuarded]_vars

\* C16, amended: as C16_QueueGuarded, except that the answer when either
\* is missing is 404 or, when a database call of the handler raises instead
\* of answering, 500; in both cases no job record changes and no worker is
\* scheduled.
C16_QueueGuardedAmended ==
  [][/\ \A n \in 1..MaxRequests :
          queue_handbrake_job(Uuid4("analysis", n)) /\ Missing(Uuid4("analysis", n))
          => /\ response' \in {Response("queue-handbrake", 404),
                                Response("queue-handbrake", 500)}
             /\ UNCHANGED <<handbrake_jobs, tasks>>
     /\ JobCreatedGuarded]_vars

\* C16 witness: a job has been created for the first analysis, and a later
\* request for an analysis that does not exist was answered 404
C16_Witness ==
  /\ Len(handbrake_jobs) > 0
  /\ handbrake_jobs[1].video_analysis_id = Uuid4("analysis", 1)
  /\ \E n \in 1..MaxRequests : Missing(Uuid4("analysis", n))
  /\ response = Response("queue-handbrake", 404)

=============================================================================
